---- MODULE Spec2Model ----
(***************************************************************************)
(* A model of prime.cpp: the sieve (generatePrimes), trial division        *)
(* (divideWithPrimes), the decimal parser (extractNumeratorDenominator),   *)
(* the fraction reducer (removeCommonNumbers, calculateProduct), the two   *)
(* top-level operations (decimalToFraction, factorizeNumber), the start-up *)
(* self-test (verifyFunctionality) and main's argument handling.           *)
(*                                                                         *)
(* Texts are TLA+ strings, used as sequences of characters.  A long long   *)
(* or int value is a record [neg, mag]: a sign and the limbs of the        *)
(* magnitude in radix Base, most significant first, without leading zero   *)
(* limbs (zero is the empty sequence), so that 32-bit and 64-bit limits    *)
(* are the real ones.  Primes and factors, which never exceed the sieve's  *)
(* bound, are plain integers.                                              *)
(***************************************************************************)
EXTENDS Integers, Sequences, FiniteSets, TLC

(***************************************************************************)
(* Bounds of the model.                                                    *)
(***************************************************************************)
\* The sieve's size (prime.cpp:155 sets 999'999U); scaled down, and large
\* enough for the self-test's 1231.
primeCandidates == 1300
\* The largest number of command-line parameters main is given.
MaxArgs == 2
\* The integers 0..MaxInt are offered as input texts.
MaxInt == 40
\* divideWithPrimes' factor vector is cut off at this length (memory).
MaxFactors == 64
\* The pure-function check of removeCommonNumbers draws its arguments from
\* ascending sequences of at most MaxFactorLen of the first NumSmallPrimes primes.
MaxFactorLen == 3
NumSmallPrimes == 4

(***************************************************************************)
(* Characters and std::string.                                             *)
(***************************************************************************)
DigitChars == {"0", "1", "2", "3", "4", "5", "6", "7", "8", "9"}

DigitValue ==
  ("0" :> 0) @@ ("1" :> 1) @@ ("2" :> 2) @@ ("3" :> 3) @@ ("4" :> 4) @@
  ("5" :> 5) @@ ("6" :> 6) @@ ("7" :> 7) @@ ("8" :> 8) @@ ("9" :> 9)

DigitChar(d) == SubSeq("0123456789", d + 1, d + 1)

\* line[i], 0-based as in the source.
At(line, i) == SubSeq(line, i + 1, i + 1)

isdigit(c) == c \in DigitChars

isspace(c) == c = " "

tolower(c) == IF c = "T" THEN "t" ELSE IF c = "V" THEN "v" ELSE c

\* std::string::npos, the size_t value 2^64 - 1.
npos == -1

\* std::string::find(ch): the 0-based position of the first ch, or npos.
find(line, ch) ==
  LET hits == {i \in 0..(Len(line) - 1) : At(line, i) = ch}
  IN IF hits = {} THEN npos ELSE CHOOSE i \in hits : \A k \in hits : i <= k

\* a - b in size_t (mod 2^64), for a length a and a position b that is either
\* at most a or npos: a - (2^64 - 1) = a + 1 (mod 2^64).
SizeSub(a, b) == IF b = npos THEN a + 1 ELSE a - b

\* std::string::substr(pos, count): [exc, str]; out_of_range when pos > size().
substr(line, pos, count) ==
  IF pos = npos \/ pos > Len(line)
  THEN [exc |-> "out_of_range", str |-> ""]
  ELSE LET last == IF count = npos \/ pos + count > Len(line)
                   THEN Len(line) ELSE pos + count
       IN [exc |-> "none", str |-> SubSeq(line, pos + 1, last)]

(***************************************************************************)
(* Magnitudes: sequences of limbs, base-Base digits, most significant      *)
(* first and without leading zeros (zero is the empty sequence).           *)
(* 12345678 is <<1234, 5678>>.                                             *)
(***************************************************************************)
Base == 10000

SetMin(S) == CHOOSE x \in S : \A y \in S : x <= y

\* d without its leading zeros.
Strip(d) ==
  LET nonzero == {k \in 1..Len(d) : d[k] /= 0}
  IN IF nonzero = {} THEN <<>> ELSE SubSeq(d, SetMin(nonzero), Len(d))

Front(d) == SubSeq(d, 1, Len(d) - 1)

Last(d) == d[Len(d)]

Range(seq) == {seq[k] : k \in 1..Len(seq)}

\* The magnitude of a natural number k.
RECURSIVE NatToMag(_)
NatToMag(k) == IF k = 0 THEN <<>> ELSE Append(NatToMag(k \div Base), k % Base)

\* a < b for two magnitudes of the same length.
LexLess(a, b) ==
  \E k \in 1..Len(a) : a[k] < b[k] /\ \A j \in 1..(k - 1) : a[j] = b[j]

MagLess(a, b) ==
  IF Len(a) /= Len(b) THEN Len(a) < Len(b) ELSE LexLess(a, b)

MagLeq(a, b) == ~MagLess(b, a)

\* a * k + c for 0 <= k < Base * Base \div 4 and a carry c; the result may keep
\* a leading zero.
RECURSIVE MulAddLimbs(_, _, _)
MulAddLimbs(a, k, c) ==
  IF c = 0 /\ a = <<>> THEN <<>>
  ELSE IF a = <<>> THEN NatToMag(c)
  ELSE Append(MulAddLimbs(Front(a), k, (Last(a) * k + c) \div Base),
              (Last(a) * k + c) % Base)

MagMulSmall(a, k) == Strip(MulAddLimbs(a, k, 0))

\* a + b + c for a carry c.
RECURSIVE AddLimbs(_, _, _)
AddLimbs(a, b, c) ==
  IF c = 0 /\ b = <<>> THEN a
  ELSE IF c = 0 /\ a = <<>> THEN b
  ELSE LET da == IF a = <<>> THEN 0 ELSE Last(a)
           db == IF b = <<>> THEN 0 ELSE Last(b)
       IN Append(AddLimbs(IF a = <<>> THEN a ELSE Front(a),
                          IF b = <<>> THEN b ELSE Front(b),
                          (da + db + c) \div Base),
                 (da + db + c) % Base)

MagAdd(a, b) == Strip(AddLimbs(a, b, 0))

\* a - b - c for a borrow c and a >= b + c; the result may keep leading zeros.
RECURSIVE SubLimbs(_, _, _)
SubLimbs(a, b, c) ==
  IF c = 0 /\ b = <<>> THEN a
  ELSE LET db == IF b = <<>> THEN 0 ELSE Last(b)
           v == Last(a) - db - c
       IN Append(SubLimbs(Front(a), IF b = <<>> THEN b ELSE Front(b),
                          IF v < 0 THEN 1 ELSE 0),
                 IF v < 0 THEN v + Base ELSE v)

MagSub(a, b) == Strip(SubLimbs(a, b, 0))

\* a * b, limb by limb of b.
RECURSIVE MagMul(_, _)
MagMul(a, b) ==
  IF b = <<>> \/ a = <<>> THEN <<>>
  ELSE MagAdd(MagMulSmall(MagMul(a, Front(b)), Base), MagMulSmall(a, Last(b)))

\* Long division of a by a small k > 0: [q, r], the leading zeros of q kept.
RECURSIVE DivLimbs(_, _)
DivLimbs(a, k) ==
  IF a = <<>> THEN [q |-> <<>>, r |-> 0]
  ELSE LET p == DivLimbs(Front(a), k)
           v == p.r * Base + Last(a)
       IN [q |-> Append(p.q, v \div k), r |-> v % k]

MagDivSmall(a, k) == Strip(DivLimbs(a, k).q)

MagRemSmall(a, k) == DivLimbs(a, k).r

\* The magnitude that a sequence of decimal digits (most significant first)
\* denotes: the limb that ends at digit e is made of the digits e - 3 .. e.
DigitAt(digits, e) == IF e >= 1 THEN digits[e] ELSE 0

LimbAt(digits, e) ==
  DigitAt(digits, e) + 10 * DigitAt(digits, e - 1)
    + 100 * DigitAt(digits, e - 2) + 1000 * DigitAt(digits, e - 3)

DigitsToMag(digits) ==
  LET limbs == (Len(digits) + 3) \div 4
  IN Strip([i \in 1..limbs |-> LimbAt(digits, Len(digits) - 4 * (limbs - i))])

(***************************************************************************)
(* int and long long values: a sign and a magnitude.                       *)
(***************************************************************************)
\* 2147483647, 9223372036854775807 and 2^64 = 18446744073709551616.
INT_MAX == <<21, 4748, 3647>>

LLONG_MAX == <<922, 3372, 368, 5477, 5807>>

Two64 == <<1844, 6744, 737, 955, 1616>>

Val(neg, mag) == [neg |-> neg /\ mag /= <<>>, mag |-> mag]

Zero == Val(FALSE, <<>>)

\* The value of a small integer k.
Num(k) == IF k < 0 THEN Val(TRUE, NatToMag(0 - k)) ELSE Val(FALSE, NatToMag(k))

\* Whether the value is one a signed type with maximum max can hold.
Fits(x, max) ==
  IF x.neg THEN MagLeq(x.mag, MagAdd(max, <<1>>)) ELSE MagLeq(x.mag, max)

LLAdd(x, y) ==
  IF x.neg = y.neg THEN Val(x.neg, MagAdd(x.mag, y.mag))
  ELSE IF MagLess(x.mag, y.mag) THEN Val(y.neg, MagSub(y.mag, x.mag))
  ELSE Val(x.neg, MagSub(x.mag, y.mag))

LLMul(x, y) == Val(x.neg /= y.neg, MagMul(x.mag, y.mag))

LLMulSmall(x, k) == Val(x.neg, MagMulSmall(x.mag, k))

\* x / k and x % k == 0 for a small k > 0 (C++ division truncates toward zero).
LLDivSmall(x, k) == Val(x.neg, MagDivSmall(x.mag, k))

Divides(k, x) == MagRemSmall(x.mag, k) = 0

\* The value a two's complement 64-bit register holds for x.
RECURSIVE Wrap64(_)
Wrap64(x) ==
  IF Fits(x, LLONG_MAX) THEN x
  ELSE Wrap64(LLAdd(x, Val(~x.neg, Two64)))

(***************************************************************************)
(* std::stoi and std::stoll (strtol): leading white space is skipped, then *)
(* an optional sign, then the longest run of digits; what follows is       *)
(* ignored.  No digit: invalid_argument.  A value the type cannot hold:    *)
(* out_of_range.                                                           *)
(***************************************************************************)
\* s from its first character on that is no white space.
SkipSpace(s) ==
  LET solid == {k \in 1..Len(s) : ~isspace(SubSeq(s, k, k))}
  IN IF solid = {} THEN "" ELSE SubSeq(s, SetMin(solid), Len(s))

\* The digits s starts with, as a sequence of their values.
DigitRun(s) ==
  LET stops == {k \in 1..Len(s) : ~isdigit(SubSeq(s, k, k))}
      len == IF stops = {} THEN Len(s) ELSE SetMin(stops) - 1
  IN [k \in 1..len |-> DigitValue[SubSeq(s, k, k)]]

strtol(text, max) ==
  LET s == SkipSpace(text)
      signed == s /= "" /\ Head(s) \in {"+", "-"}
      neg == s /= "" /\ Head(s) = "-"
      run == DigitRun(IF signed THEN Tail(s) ELSE s)
      v == Val(neg, DigitsToMag(run))
  IN IF Len(run) = 0 THEN [exc |-> "invalid_argument", val |-> Zero]
     ELSE IF ~Fits(v, max) THEN [exc |-> "out_of_range", val |-> Zero]
     ELSE [exc |-> "none", val |-> v]

stoi(text) == strtol(text, INT_MAX)

stoll(text) == strtol(text, LLONG_MAX)

One == Num(1)

(***************************************************************************)
(* generatePrimes (prime.cpp:151-199).  candidates holds 1..primeCandidates *)
(* (candidates[v - 1] is v).  For every i the inner loop marks i * j for   *)
(* j = 2, 3, ... until the first j whose product is not within the bound   *)
(* (the break) or j reaches the size.  i * j is an unsigned 32-bit         *)
(* product; it is formed only up to the break, so it stays far below 2^32. *)
(***************************************************************************)
\* A comparison that is off by one: the product primeCandidates itself is
\* beyond the bound.
WithinBoundStrict(i, j) == i * j < primeCandidates

\* if (i * j <= primeCandidates)
WithinBound(i, j) == i * j <= primeCandidates

\* The j at which the inner loop for i ends: the first one that takes the
\* else branch, or candidates.size() when there is none.
BreakAt(i) ==
  IF \A j \in 2..(primeCandidates - 1) : WithinBound(i, j)
  THEN primeCandidates
  ELSE CHOOSE j \in 2..(primeCandidates - 1) :
         ~WithinBound(i, j) /\ \A before \in 2..(j - 1) : WithinBound(i, before)

\* The values the inner loop for i sets to 0.
Marked(i) == {i * j : j \in 2..(BreakAt(i) - 1)}

\* The candidates after the two loops (prime.cpp:159-172).
Sieved ==
  LET marked == UNION {Marked(i) : i \in 2..(primeCandidates - 1)}
  IN [v \in 1..primeCandidates |-> IF v \in marked THEN 0 ELSE v]

\* The candidates kept as primes (prime.cpp:174-180).
CollectPrimes(cand) == SelectSeq(cand, LAMBDA v : v > 1)

generatePrimes == CollectPrimes(Sieved)

(***************************************************************************)
(* divideWithPrimes (prime.cpp:204-224).  The for loop over the primes and *)
(* the while loop inside it: NextDivisor is the index of the next prime,   *)
(* from index k on, whose while condition holds (0 when there is none), so *)
(* one DivideStep is one pass through the while body.                      *)
(***************************************************************************)
NextDivisor(number, primeList, k) ==
  LET hits == {idx \in k..Len(primeList) : Divides(primeList[idx], number)}
  IN IF number = One \/ hits = {} THEN 0
     ELSE CHOOSE idx \in hits : \A other \in hits : idx <= other

\* A loop that tries every prime once only (if instead of while).
DivideStepOnce(frame, primeList, idx) ==
  [frame EXCEPT !.factors = Append(@, primeList[idx]),
                !.number = LLDivSmall(@, primeList[idx]),
                !.k = idx + 1]

\* factors.push_back(n); number /= n;  for the prime at index idx.
DivideStep(frame, primeList, idx) ==
  [frame EXCEPT !.factors = Append(@, primeList[idx]),
                !.number = LLDivSmall(@, primeList[idx]),
                !.k = idx]

(***************************************************************************)
(* calculateProduct (prime.cpp:282-290).                                   *)
(***************************************************************************)
RECURSIVE calculateProduct(_)
calculateProduct(factors) ==
  IF factors = <<>> THEN One
  ELSE LLMulSmall(calculateProduct(Front(factors)), Last(factors))

(***************************************************************************)
(* removeCommonNumbers (prime.cpp:300-372), with std::set_intersection and *)
(* std::set_difference as the merges over two ranges that they are.        *)
(***************************************************************************)
RECURSIVE set_intersection(_, _)
set_intersection(a, b) ==
  IF a = <<>> \/ b = <<>> THEN <<>>
  ELSE IF Head(a) < Head(b) THEN set_intersection(Tail(a), b)
  ELSE IF Head(b) < Head(a) THEN set_intersection(a, Tail(b))
  ELSE <<Head(a)>> \o set_intersection(Tail(a), Tail(b))

RECURSIVE set_difference(_, _)
\* A difference that drops every copy of a common value as soon as it meets
\* it: on equal heads only the first range advances.
set_differenceAllCopies(a, b) ==
  IF a = <<>> THEN <<>>
  ELSE IF b = <<>> THEN a
  ELSE IF Head(a) < Head(b) THEN <<Head(a)>> \o set_difference(Tail(a), b)
  ELSE IF Head(b) < Head(a) THEN set_difference(a, Tail(b))
  ELSE set_difference(Tail(a), b)

set_difference(a, b) ==
  IF a = <<>> THEN <<>>
  ELSE IF b = <<>> THEN a
  ELSE IF Head(a) < Head(b) THEN <<Head(a)>> \o set_difference(Tail(a), b)
  ELSE IF Head(b) < Head(a) THEN set_difference(a, Tail(b))
  ELSE set_difference(Tail(a), Tail(b))

\* A side left empty becomes {1} (prime.cpp:329-332, 350-353).
LeftOver(side, inter) ==
  LET left == set_difference(side, inter)
  IN IF Len(left) = 0 THEN <<1>> ELSE left

removeCommonNumbers(numerator, denominator) ==
  LET inter == set_intersection(numerator, denominator)
  IN IF Len(inter) /= 0
     THEN <<LeftOver(numerator, inter), LeftOver(denominator, inter)>>
     ELSE <<numerator, denominator>>

(***************************************************************************)
(* factorizeNumber's map of prime to exponent (prime.cpp:455-467).         *)
(***************************************************************************)
\* A map that is set to 1 for a prime it already holds, too.
CountFactorReset(map, i) ==
  IF i \in DOMAIN map THEN [map EXCEPT ![i] = 1] ELSE (i :> 1) @@ map

CountFactor(map, i) ==
  IF i \in DOMAIN map THEN [map EXCEPT ![i] = @ + 1] ELSE (i :> 1) @@ map

RECURSIVE factorsWithExp(_)
factorsWithExp(factors) ==
  IF factors = <<>> THEN <<>>
  ELSE CountFactor(factorsWithExp(Front(factors)), Last(factors))

(***************************************************************************)
(* extractNumeratorDenominator (prime.cpp:245-277).  The result is         *)
(* [ok, exc, ub, numerator, denominator]: exc is an exception that leaves  *)
(* the function (only out_of_range is caught inside), ub says that a       *)
(* signed 64-bit operation overflowed, and the values are then those of a  *)
(* build whose arithmetic wraps.                                           *)
(***************************************************************************)
\* One pass of the loop body, denominator *= 10, on d = [val, ub].
TimesTenStep(d) ==
  LET exact == LLMulSmall(d.val, 10)
  IN [val |-> Wrap64(exact), ub |-> d.ub \/ ~Fits(exact, LLONG_MAX)]

\* count passes of the loop body, starting from d: the first half of them,
\* then the rest.
RECURSIVE TimesTenLoop(_, _)
TimesTenLoop(d, count) ==
  IF d.val = Zero \/ count <= 0 THEN d
  ELSE IF count = 1 THEN TimesTenStep(d)
  ELSE TimesTenLoop(TimesTenLoop(d, count \div 2), count - count \div 2)

\* denominator = 1, then denominator *= 10 once for every character after the
\* point: [val, ub].
TimesTen(count) == TimesTenLoop([val |-> One, ub |-> FALSE], count)

Outcome(ok, exc, ub, numerator, denominator) ==
  [ok |-> ok, exc |-> exc, ub |-> ub,
   numerator |-> numerator, denominator |-> denominator]

extractNumeratorDenominator(line) ==
  LET pos == find(line, ".")
      tooLong == pos /= 0 /\ SizeSub(Len(line), pos) >= 9
      intText == substr(line, 0, pos)
      m == IF pos /= 0 THEN stoi(intText.str) ELSE [exc |-> "none", val |-> Zero]
      rest == substr(line, pos, npos)
      len == Len(rest.str)
      den == TimesTen(len - 1)
      frac == stoi(substr(rest.str, 1, len - 1).str)
      product == LLMul(den.val, m.val)
      sum == LLAdd(frac.val, Wrap64(product))
      ub == den.ub \/ ~Fits(product, LLONG_MAX) \/ ~Fits(sum, LLONG_MAX)
  IN IF tooLong THEN Outcome(FALSE, "none", FALSE, One, One)
     ELSE IF m.exc = "invalid_argument"
          THEN Outcome(FALSE, "invalid_argument", FALSE, One, One)
     ELSE IF m.exc = "out_of_range" THEN Outcome(FALSE, "none", FALSE, One, One)
     ELSE IF rest.exc = "out_of_range" THEN Outcome(FALSE, "none", FALSE, One, One)
     ELSE IF frac.exc = "invalid_argument"
          THEN Outcome(FALSE, "invalid_argument", den.ub, One, den.val)
     ELSE IF frac.exc = "out_of_range"
          THEN Outcome(FALSE, "none", den.ub, One, den.val)
     ELSE Outcome(TRUE, "none", ub, Wrap64(sum), den.val)

(***************************************************************************)
(* The texts offered to the program, at the prompt and as parameters.      *)
(***************************************************************************)
RECURSIVE Dec(_)
Dec(k) == IF k < 10 THEN DigitChar(k) ELSE Dec(k \div 10) \o DigitChar(k % 10)

IntTexts ==
  {Dec(k) : k \in 0..MaxInt} \cup
  {"1230", "1231", "13112", "1301", "2602", "007", "-6", "+8", " 7", "12a",
   "9223372036854775806", "9223372036854775807", "9223372036854775808",
   "99999999999999999999"}

OptionTexts == {"", "abc", "-", "-t", "-v", "-T", "-x"}

IntParts == {"", "0", "1", "2", "12", "-1"}

FracParts ==
  {"", "0", "5", "12", "25", "75", "125", "301", "000003", "1234567", "12345678"}

DecimalTexts ==
  {ip \o "." \o fp : ip \in IntParts, fp \in FracParts} \cup
  {"1.2.3", "a.5", "1.5a", "1a.5", "0.-1", "1..5", "2147483647.9999999",
   "2147483648.5", ".9999999999", ".0000000000000000001",
   ".00000000000000000001", "1.000003"}

Texts == IntTexts \cup OptionTexts \cup DecimalTexts

(***************************************************************************)
(* The state.                                                              *)
(*   pc      where the program is                                          *)
(*   status  how the process has ended, "running" until then               *)
(*   caller  who called decimalToFraction or factorizeNumber               *)
(*   argc, number, calculatePrimeNumber, trace, primes: main's variables   *)
(*           and the global trace flag                                     *)
(*   dtf     decimalToFraction's text and local variables                  *)
(*   fn      factorizeNumber's text and local variables                    *)
(*   dw      divideWithPrimes' argument and local variables, and the place *)
(*           it returns to                                                 *)
(***************************************************************************)
VARIABLES pc, status, caller, argc, number, calculatePrimeNumber, trace,
          primes, dtf, fn, dw

vars ==
  <<pc, status, caller, argc, number, calculatePrimeNumber, trace, primes,
    dtf, fn, dw>>

mainVars == <<argc, number, calculatePrimeNumber, trace>>

NoDtf ==
  [active |-> FALSE, text |-> "", output |-> FALSE, ok |-> FALSE, ub |-> FALSE,
   numerator |-> One, denominator |-> One,
   factorsnumerator |-> <<>>, factorsdenominator |-> <<>>,
   num |-> <<>>, den |-> <<>>, t |-> Zero, n |-> Zero]

NoFn ==
  [active |-> FALSE, text |-> "", output |-> FALSE, m |-> Zero,
   factors |-> <<>>, factorsWithExp |-> <<>>]

\* The frames of the calls decimalToFraction(text, primes, output) and
\* factorizeNumber(text, primes, output).
DtfCall(text, output) ==
  [NoDtf EXCEPT !.active = TRUE, !.text = text, !.output = output]

FnCall(text, output) ==
  [NoFn EXCEPT !.active = TRUE, !.text = text, !.output = output]

NoDw == [arg |-> Zero, number |-> Zero, factors |-> <<>>, k |-> 1, ret |-> "none"]

\* The frame of a call divideWithPrimes(x, primes) that returns to ret.
DivideCall(x, ret) == [arg |-> x, number |-> x, factors |-> <<>>, k |-> 1, ret |-> ret]

Init ==
  /\ pc = "start"
  /\ status = "running"
  /\ caller = "none"
  /\ argc = 0
  /\ number = ""
  /\ calculatePrimeNumber = FALSE
  /\ trace = FALSE
  /\ primes = <<>>
  /\ dtf = NoDtf
  /\ fn = NoFn
  /\ dw = NoDw

\* The process ends with the given status.
Exit(how) == pc' = "exit" /\ status' = how

\* An exception leaves decimalToFraction or factorizeNumber: main's try block
\* catches it and returns 0 (prime.cpp:101-109); verifyFunctionality's calls
\* are outside the try block.
Throw(exc) == Exit(IF caller = "main" THEN "caught " \o exc ELSE "terminate")

(***************************************************************************)
(* divideWithPrimes (prime.cpp:204-224).                                   *)
(***************************************************************************)
\* if (number == 1) { factors.push_back(1); return factors; }
DivideOne ==
  /\ pc = "divide"
  /\ dw.factors = <<>> /\ dw.number = One
  /\ dw' = [dw EXCEPT !.factors = <<1>>]
  /\ pc' = "divided"
  /\ UNCHANGED <<status, caller, mainVars, primes, dtf, fn>>

\* One pass through the body of the while loop.
DividePush ==
  /\ pc = "divide"
  /\ ~(dw.factors = <<>> /\ dw.number = One)
  /\ Len(dw.factors) < MaxFactors
  /\ LET idx == NextDivisor(dw.number, primes, dw.k)
     IN idx /= 0 /\ dw' = DivideStep(dw, primes, idx)
  /\ UNCHANGED <<pc, status, caller, mainVars, primes, dtf, fn>>

\* The for loop has run through the primes: return factors.
DivideReturn ==
  /\ pc = "divide"
  /\ ~(dw.factors = <<>> /\ dw.number = One)
  /\ NextDivisor(dw.number, primes, dw.k) = 0
  /\ pc' = "divided"
  /\ UNCHANGED <<status, caller, mainVars, primes, dtf, fn, dw>>

(***************************************************************************)
(* decimalToFraction (prime.cpp:378-441).                                  *)
(***************************************************************************)
\* Lines 380-397, up to the call divideWithPrimes(numerator, primes).  A signed
\* overflow is undefined: the build either wraps or traps.
DtfExtract ==
  /\ pc = "dtf"
  /\ LET r == extractNumeratorDenominator(dtf.text)
     IN \E build \in (IF r.ub THEN {"wraps", "traps"} ELSE {"defined"}) :
          IF build = "traps"
          THEN Exit("trap") /\ UNCHANGED <<dtf, dw>>
          ELSE IF r.exc /= "none"
          THEN Throw(r.exc) /\ UNCHANGED <<dtf, dw>>
          ELSE IF ~r.ok
          THEN /\ dtf' = [dtf EXCEPT !.ok = FALSE, !.ub = r.ub,
                                     !.numerator = r.numerator,
                                     !.denominator = r.denominator,
                                     !.t = Zero, !.n = Zero]
               /\ pc' = "dtf_done"
               /\ UNCHANGED <<status, dw>>
          ELSE /\ dtf' = [dtf EXCEPT !.ok = TRUE, !.ub = r.ub,
                                     !.numerator = r.numerator,
                                     !.denominator = r.denominator]
               /\ dw' = DivideCall(r.numerator, "dtf_num")
               /\ pc' = "divide"
               /\ UNCHANGED status
  /\ UNCHANGED <<caller, mainVars, primes, fn>>

\* Line 396 returns; line 397 calls divideWithPrimes(denominator, primes).
DtfNumerator ==
  /\ pc = "divided" /\ dw.ret = "dtf_num"
  /\ dtf' = [dtf EXCEPT !.factorsnumerator = dw.factors]
  /\ dw' = DivideCall(dtf.denominator, "dtf_den")
  /\ pc' = "divide"
  /\ UNCHANGED <<status, caller, mainVars, primes, fn>>

\* Line 397 returns; lines 410-440: removeCommonNumbers, calculateProduct, return.
DtfReduce ==
  /\ pc = "divided" /\ dw.ret = "dtf_den"
  /\ LET left == removeCommonNumbers(dtf.factorsnumerator, dw.factors)
     IN dtf' = [dtf EXCEPT !.factorsdenominator = dw.factors,
                           !.num = left[1], !.den = left[2],
                           !.t = calculateProduct(left[1]),
                           !.n = calculateProduct(left[2])]
  /\ pc' = "dtf_done"
  /\ UNCHANGED <<status, caller, mainVars, primes, fn, dw>>

(***************************************************************************)
(* factorizeNumber (prime.cpp:445-493).                                    *)
(***************************************************************************)
\* Line 447, stoll, and the call divideWithPrimes(m, primes) of line 454.
FnParse ==
  /\ pc = "fn"
  /\ LET r == stoll(fn.text)
     IN IF r.exc /= "none"
        THEN Throw(r.exc) /\ UNCHANGED <<fn, dw>>
        ELSE /\ fn' = [fn EXCEPT !.m = r.val]
             /\ dw' = DivideCall(r.val, "fn_divided")
             /\ pc' = "divide"
             /\ UNCHANGED status
  /\ UNCHANGED <<caller, mainVars, primes, dtf>>

\* Lines 455-492: the map of prime to exponent, returned.
FnGroup ==
  /\ pc = "divided" /\ dw.ret = "fn_divided"
  /\ fn' = [fn EXCEPT !.factors = dw.factors,
                      !.factorsWithExp = factorsWithExp(dw.factors)]
  /\ pc' = "fn_done"
  /\ UNCHANGED <<status, caller, mainVars, primes, dtf, dw>>

(***************************************************************************)
(* verifyFunctionality (prime.cpp:499-545), run by main's assert.          *)
(***************************************************************************)
\* Lines 501-502.
VerifyStart ==
  /\ pc = "start"
  /\ primes' = generatePrimes
  /\ caller' = "verify"
  /\ dw' = DivideCall(Num(1230), "verify1230")
  /\ pc' = "divide"
  /\ UNCHANGED <<status, mainVars, dtf, fn>>

\* Lines 503-513; a false result fails the assertion.
Verify1230 ==
  /\ pc = "divided" /\ dw.ret = "verify1230"
  /\ IF Len(dw.factors) /= 4 \/ calculateProduct(dw.factors) /= Num(1230)
     THEN Exit("assertion failed") /\ UNCHANGED dw
     ELSE /\ dw' = DivideCall(Num(1231), "verify1231")
          /\ pc' = "divide"
          /\ UNCHANGED status
  /\ UNCHANGED <<caller, mainVars, primes, dtf, fn>>

\* Lines 514-526.
Verify1231 ==
  /\ pc = "divided" /\ dw.ret = "verify1231"
  /\ IF Len(dw.factors) /= 1 \/ calculateProduct(dw.factors) /= Num(1231)
     THEN Exit("assertion failed") /\ UNCHANGED dtf
     ELSE /\ dtf' = DtfCall("0.12", FALSE)
          /\ pc' = "dtf"
          /\ UNCHANGED status
  /\ UNCHANGED <<caller, mainVars, primes, fn, dw>>

\* Lines 527-538.
VerifyFraction ==
  /\ pc = "dtf_done" /\ caller = "verify"
  /\ IF dtf.t /= Num(3) \/ dtf.n /= Num(25)
     THEN Exit("assertion failed") /\ UNCHANGED fn
     ELSE /\ fn' = FnCall("13112", FALSE)
          /\ pc' = "fn"
          /\ UNCHANGED status
  /\ UNCHANGED <<caller, mainVars, primes, dtf, dw>>

\* Lines 539-544: a wrong map is only reported; the result is true, the
\* function's variables are gone, and main goes on after its assert.
VerifyFactorize ==
  /\ pc = "fn_done" /\ caller = "verify"
  /\ pc' = "main"
  /\ caller' = "none"
  /\ primes' = <<>> /\ dtf' = NoDtf /\ fn' = NoFn /\ dw' = NoDw
  /\ UNCHANGED <<status, mainVars>>

(***************************************************************************)
(* main (prime.cpp:38-110).                                                *)
(***************************************************************************)
\* A build with NDEBUG drops the assert of line 42.
MainNoAssert ==
  /\ pc = "start"
  /\ pc' = "main"
  /\ UNCHANGED <<status, caller, mainVars, primes, dtf, fn, dw>>

\* argc == 1: lines 49-51.
MainPrompt ==
  /\ pc = "main"
  /\ \E line \in Texts :
       /\ number' = line
       /\ calculatePrimeNumber' = (find(line, ".") = npos)
  /\ argc' = 1
  /\ pc' = "generate"
  /\ UNCHANGED <<status, caller, trace, primes, dtf, fn, dw>>

\* argc > 1: the while loop of line 55 is entered.
MainArgs ==
  /\ pc = "main"
  /\ \E count \in 2..(MaxArgs + 1) : argc' = count
  /\ pc' = "args"
  /\ UNCHANGED <<status, caller, number, calculatePrimeNumber, trace, primes,
                 dtf, fn, dw>>

\* One pass through the while loop, lines 55-86, for the next parameter.
MainParam ==
  /\ pc = "args"
  /\ argc - 1 /= 0
  /\ argc' = argc - 1
  /\ \E param \in Texts :
       IF param = ""
       THEN UNCHANGED <<pc, status, number, calculatePrimeNumber, trace>>
       ELSE IF find(param, ".") /= npos
       THEN number' = param
            /\ UNCHANGED <<pc, status, calculatePrimeNumber, trace>>
       ELSE IF isdigit(At(param, 0)) /\ stoll(param).exc /= "none"
       THEN Exit("caught " \o stoll(param).exc)
            /\ UNCHANGED <<number, calculatePrimeNumber, trace>>
       ELSE IF isdigit(At(param, 0)) /\ stoll(param).val /= Zero
       THEN /\ calculatePrimeNumber' = TRUE
            /\ number' = param
            /\ IF MagLess(MagSub(LLONG_MAX, <<1>>), stoll(param).val.mag)
               THEN Exit("return -2")
               ELSE UNCHANGED <<pc, status>>
            /\ UNCHANGED trace
       ELSE IF At(param, 0) = "-" /\ Len(param) > 1
       THEN trace' = (tolower(At(param, 1)) = "t" \/ tolower(At(param, 1)) = "v")
            /\ UNCHANGED <<pc, status, number, calculatePrimeNumber>>
       ELSE Exit("return -1")
            /\ UNCHANGED <<number, calculatePrimeNumber, trace>>
  /\ UNCHANGED <<caller, primes, dtf, fn, dw>>

\* --argc reaches 0: the loop ends.
MainArgsEnd ==
  /\ pc = "args"
  /\ argc - 1 = 0
  /\ argc' = 0
  /\ pc' = "generate"
  /\ UNCHANGED <<status, caller, number, calculatePrimeNumber, trace, primes,
                 dtf, fn, dw>>

\* Lines 90-99: generatePrimes, then the call of one of the two operations.
MainGenerate ==
  /\ pc = "generate"
  /\ primes' = generatePrimes
  /\ caller' = "main"
  /\ IF ~calculatePrimeNumber
     THEN /\ dtf' = DtfCall(number, TRUE)
          /\ pc' = "dtf"
          /\ UNCHANGED fn
     ELSE /\ fn' = FnCall(number, TRUE)
          /\ pc' = "fn"
          /\ UNCHANGED dtf
  /\ UNCHANGED <<status, mainVars, dw>>

\* The operation has returned to main: return 0.
MainReturn ==
  /\ pc \in {"dtf_done", "fn_done"} /\ caller = "main"
  /\ Exit("return 0")
  /\ UNCHANGED <<caller, mainVars, primes, dtf, fn, dw>>

Next ==
  \/ VerifyStart \/ Verify1230 \/ Verify1231 \/ VerifyFraction \/ VerifyFactorize
  \/ MainNoAssert \/ MainPrompt \/ MainArgs \/ MainParam \/ MainArgsEnd
  \/ MainGenerate \/ MainReturn
  \/ DtfExtract \/ DtfNumerator \/ DtfReduce
  \/ FnParse \/ FnGroup
  \/ DivideOne \/ DividePush \/ DivideReturn

Spec == Init /\ [][Next]_vars

TypeOK ==
  /\ pc \in {"start", "main", "args", "generate", "dtf", "dtf_done", "fn",
             "fn_done", "divide", "divided", "exit"}
  /\ status \in {"running", "return 0", "return -1", "return -2", "trap",
                 "terminate", "assertion failed", "caught invalid_argument",
                 "caught out_of_range"}
  /\ (pc = "exit") = (status /= "running")

(***************************************************************************)
(* removeCommonNumbers and calculateProduct on their own: decimalToFraction *)
(* at line 410 with any two factor vectors divideWithPrimes can have        *)
(* returned for its numerator and denominator.                              *)
(***************************************************************************)
SmallPrimes == SubSeq(generatePrimes, 1, NumSmallPrimes)

\* The ascending sequences of at most MaxFactorLen small primes, and [1].
FactorSeqs ==
  {<<1>>} \cup
  UNION {{f \in [1..len -> Range(SmallPrimes)] :
            \A k \in 1..(len - 1) : f[k] <= f[k + 1]} : len \in 0..MaxFactorLen}

ReduceInit ==
  /\ pc = "divided"
  /\ status = "running"
  /\ caller = "main"
  /\ argc = 0
  /\ number = ""
  /\ calculatePrimeNumber = FALSE
  /\ trace = FALSE
  /\ primes = generatePrimes
  /\ fn = NoFn
  /\ \E A \in FactorSeqs, B \in FactorSeqs :
       /\ dtf = [DtfCall("", TRUE) EXCEPT !.ok = TRUE,
                                          !.numerator = calculateProduct(A),
                                          !.denominator = calculateProduct(B),
                                          !.factorsnumerator = A]
       /\ dw = [arg |-> calculateProduct(B), number |-> One, factors |-> B,
                k |-> 1, ret |-> "dtf_den"]

ReduceNext == DtfReduce \/ MainReturn

ReduceSpec == ReduceInit /\ [][ReduceNext]_vars

(***************************************************************************)
(* What the results are measured against: primality, products and          *)
(* multiplicities, defined without the program's operators.  Smoothness    *)
(* and multiplicities are worked out on plain integers, for values below   *)
(* 2^31.                                                                   *)
(***************************************************************************)
StrictlyIncreasing(seq) == \A k \in 1..(Len(seq) - 1) : seq[k] < seq[k + 1]

NonDecreasing(seq) == \A k \in 1..(Len(seq) - 1) : seq[k] <= seq[k + 1]

\* Some i, j >= 2 have i * j = v: j can only be v \div i.
IsProduct(v) == \E i \in 2..v : v % i = 0 /\ v \div i >= 2

\* The values of 2..primeCandidates that are no product: the primes <= Bound.
PrimesUpToBound == {v \in 2..primeCandidates : ~IsProduct(v)}

\* x is below 2^31, and then ToInt is its magnitude as a plain integer.
IsSmall(x) == MagLeq(x.mag, INT_MAX)

ToInt(x) ==
  IF Len(x.mag) = 0 THEN 0
  ELSE IF Len(x.mag) = 1 THEN x.mag[1]
  ELSE IF Len(x.mag) = 2 THEN x.mag[1] * Base + x.mag[2]
  ELSE (x.mag[1] * Base + x.mag[2]) * Base + x.mag[3]

\* The number of times p divides n, for n >= 1 and p >= 2.
RECURSIVE Multiplicity(_, _)
Multiplicity(n, p) == IF n % p = 0 THEN 1 + Multiplicity(n \div p, p) ELSE 0

PrimeDivisors(n) == {p \in PrimesUpToBound : n % p = 0}

\* The product of p^Multiplicity(n, p) over the primes ps.
RECURSIVE PowerProduct(_, _)
PowerProduct(n, ps) ==
  IF ps = {} THEN 1
  ELSE LET p == CHOOSE q \in ps : TRUE
       IN (p ^ Multiplicity(n, p)) * PowerProduct(n, ps \ {p})

\* x is not zero, below 2^31, and every prime factor of x is at most the Bound.
Smooth(x) ==
  /\ x.mag /= <<>> /\ IsSmall(x)
  /\ PowerProduct(ToInt(x), PrimeDivisors(ToInt(x))) = ToInt(x)

\* The product of a sequence of small positive integers, as a magnitude.
RECURSIVE ProductOf(_)
ProductOf(seq) ==
  IF Len(seq) = 0 THEN <<1>>
  ELSE MagMulSmall(ProductOf(Tail(seq)), Head(seq))

\* The number of times v occurs in seq.
Count(seq, v) == Cardinality({k \in 1..Len(seq) : seq[k] = v})

Min(a, b) == IF a < b THEN a ELSE b

RECURSIVE GCD(_, _)
GCD(a, b) == IF b = 0 THEN a ELSE GCD(b, a % b)

\* x and y are below 2^31 and no prime divides both.
Coprime(x, y) == IsSmall(x) /\ IsSmall(y) /\ GCD(ToInt(x), ToInt(y)) = 1

\* The digits of a text of digits, as a magnitude.
TextMag(text) == DigitsToMag([k \in 1..Len(text) |-> DigitValue[SubSeq(text, k, k)]])

AllDigits(text) == \A k \in 1..Len(text) : isdigit(SubSeq(text, k, k))

RECURSIVE Power(_, _)
Power(p, e) == IF e = 0 THEN <<1>> ELSE MagMulSmall(Power(p, e - 1), p)

\* The product of p^map[p] over the keys of map.
RECURSIVE MapProduct(_, _)
MapProduct(map, keys) ==
  IF keys = {} THEN <<1>>
  ELSE LET p == CHOOSE q \in keys : TRUE
       IN MagMul(Power(p, map[p]), MapProduct(map, keys \ {p}))

(***************************************************************************)
(* The claims.                                                             *)
(***************************************************************************)
\* C1: whenever generatePrimes has returned, its result starts at 2, is
\* strictly increasing, and holds exactly the values v of 2..Bound for which no
\* i, j >= 2 have i * j = v; 1 is not in it.
PrimesExact ==
  primes /= <<>> =>
    /\ primes[1] = 2
    /\ StrictlyIncreasing(primes)
    /\ Range(primes) = PrimesUpToBound
    /\ 1 \notin Range(primes)

\* main holds the primes, the largest prime below the Bound among them.
PrimesReturned ==
  pc = "dtf" /\ caller = "main" /\ primes /= <<>> /\ primes[Len(primes)] = 1297

\* C2: when divideWithPrimes returns for an n >= 1 (below 2^31) whose prime
\* factors are all at most the Bound, the product of the factors is n and
\* they are in non-decreasing order; 1230 has 4 factors and 1231 has 1.
DivideExact ==
  (pc = "divided" /\ ~dw.arg.neg /\ Smooth(dw.arg)) =>
    /\ ProductOf(dw.factors) = dw.arg.mag
    /\ NonDecreasing(dw.factors)
    /\ dw.arg = Num(1230) => Len(dw.factors) = 4
    /\ dw.arg = Num(1231) => Len(dw.factors) = 1

\* A number with a repeated prime factor has been factorized.
DividedRepeated ==
  pc = "divided" /\ dw.arg = Num(36) /\ dw.factors = <<2, 2, 3, 3>>

\* C3: removeCommonNumbers(A, B) takes every prime away from both sides as
\* often as it occurs on both, and the products of what it returns (as
\* calculateProduct computes them) have gcd 1.
ReduceCoprime ==
  (pc = "dtf_done" /\ dtf.ok) =>
    LET A == dtf.factorsnumerator
        B == dtf.factorsdenominator
    IN /\ \A p \in (Range(A) \cup Range(B)) \ {1} :
            /\ Count(dtf.num, p) = Count(A, p) - Min(Count(A, p), Count(B, p))
            /\ Count(dtf.den, p) = Count(B, p) - Min(Count(A, p), Count(B, p))
       /\ dtf.t.mag = ProductOf(dtf.num)
       /\ dtf.n.mag = ProductOf(dtf.den)
       /\ Coprime(dtf.t, dtf.n)

\* A prime that occurs twice on one side and once on the other is left once.
ReducedRepeated ==
  /\ pc = "dtf_done"
  /\ dtf.factorsnumerator = <<2, 2, 3>> /\ dtf.factorsdenominator = <<2, 5>>
  /\ dtf.num = <<2, 3>> /\ dtf.den = <<5>>

\* C6: when factorizeNumber returns for a text of digits that denotes an
\* n >= 2 (below 2^31) whose prime factors are all at most the Bound, the keys of its map
\* are the primes that divide n, every value is its key's multiplicity in n,
\* and the product of the powers is n.
FactorMapExact ==
  (/\ pc = "fn_done"
   /\ fn.text /= "" /\ AllDigits(fn.text)
   /\ MagLess(<<1>>, TextMag(fn.text))
   /\ Smooth(Val(FALSE, TextMag(fn.text)))) =>
    LET n == ToInt(Val(FALSE, TextMag(fn.text)))
        map == fn.factorsWithExp
    IN /\ DOMAIN map = PrimeDivisors(n)
       /\ \A p \in DOMAIN map : map[p] = Multiplicity(n, p)
       /\ MapProduct(map, DOMAIN map) = TextMag(fn.text)

\* The self-test's 13112 = 2^3 * 11 * 149.
Factorized13112 ==
  /\ pc = "fn_done" /\ fn.text = "13112"
  /\ fn.factorsWithExp = (2 :> 3) @@ (11 :> 1) @@ (149 :> 1)

(***************************************************************************)
(* Decimal texts, read without the program's parsing.                      *)
(***************************************************************************)
Points(text) == {k \in 1..Len(text) : SubSeq(text, k, k) = "."}

PointOf(text) == CHOOSE k \in Points(text) : TRUE

IntPartOf(text) == SubSeq(text, 1, PointOf(text) - 1)

FracPartOf(text) == SubSeq(text, PointOf(text) + 1, Len(text))

\* [intpart].[fracpart]: one point, digits only, at least one digit after it.
WellFormed(text) ==
  /\ Cardinality(Points(text)) = 1
  /\ AllDigits(IntPartOf(text))
  /\ FracPartOf(text) /= "" /\ AllDigits(FracPartOf(text))

\* The point is at position 0, or fewer than 9 characters run from the point
\* to the end.
InGuard(text) == PointOf(text) = 1 \/ Len(text) - PointOf(text) + 1 < 9

\* A character that is neither a digit nor the point, more or fewer than one
\* point, or no digit after the point.
Malformed(text) ==
  \/ \E k \in 1..Len(text) : SubSeq(text, k, k) \notin DigitChars \cup {"."}
  \/ Cardinality(Points(text)) /= 1
  \/ FracPartOf(text) = ""

\* 10^len(fracpart) and the digits of intpart and fracpart read as one number.
ExactDenominator(text) ==
  DigitsToMag([k \in 1..(Len(FracPartOf(text)) + 1) |-> IF k = 1 THEN 1 ELSE 0])

ExactNumerator(text) == TextMag(IntPartOf(text) \o FracPartOf(text))

\* extractNumeratorDenominator has been left for the text of this call.
Extracted == dtf.active /\ pc /= "dtf"

\* C4: when decimalToFraction returns (t, n) for an accepted text whose
\* unreduced numerator and denominator (below 2^31 in magnitude) have no prime
\* factor above the Bound,
\* t * denominator = numerator * n and gcd(t, n) = 1.
FractionSameAndLowest ==
  (/\ pc = "dtf_done" /\ dtf.ok
   /\ Smooth(dtf.numerator) /\ Smooth(dtf.denominator)) =>
    /\ LLMul(dtf.t, dtf.denominator) = LLMul(dtf.numerator, dtf.n)
    /\ Coprime(dtf.t, dtf.n)

\* C5: for a well-formed text within the digit-count guard,
\* extractNumeratorDenominator succeeds, no signed operation overflows, the
\* denominator is 10^len(fracpart) and the numerator is
\* int(fracpart) + denominator * int(intpart).
ExtractExact ==
  (Extracted /\ WellFormed(dtf.text) /\ InGuard(dtf.text)) =>
    /\ dtf.ok /\ ~dtf.ub /\ status /= "trap"
    /\ dtf.denominator = Val(FALSE, ExactDenominator(dtf.text))
    /\ dtf.numerator = Val(FALSE, ExactNumerator(dtf.text))

\* C7: for a malformed text, extractNumeratorDenominator returns false: it
\* reports no success, and no exception leaves it.
MalformedFails ==
  (Extracted /\ Malformed(dtf.text)) =>
    /\ ~dtf.ok
    /\ status \notin {"caught invalid_argument", "caught out_of_range", "terminate"}

\* C8: divideWithPrimes terminates for every number its callers pass: every
\* pass through the body of its while loop leaves a number of smaller
\* magnitude, so the loop cannot go on for ever.
DivideProgress ==
  [][DividePush => MagLess(dw'.number.mag, dw.number.mag)]_vars

\* A text that denotes a number other than zero: an integer of digits, or a
\* well-formed decimal, with an optional sign in front.
Unsigned(text) ==
  IF text /= "" /\ Head(text) \in {"+", "-"} THEN Tail(text) ELSE text

DenotesNonZero(text) ==
  LET u == Unsigned(text)
  IN \/ u /= "" /\ AllDigits(u) /\ TextMag(u) /= <<>>
     \/ WellFormed(u) /\ TextMag(IntPartOf(u) \o FracPartOf(u)) /= <<>>

\* The integer part (or the integer) is within the signed 64-bit range.
InRange64(text) ==
  LET u == Unsigned(text)
      int == IF Points(u) = {} THEN u ELSE IntPartOf(u)
  IN MagLeq(TextMag(int), LLONG_MAX)

\* C9: main calls decimalToFraction and factorizeNumber only with a text that
\* denotes a number other than zero within the signed 64-bit range.
CoreInputValidated ==
  /\ (pc = "dtf" /\ caller = "main") =>
       DenotesNonZero(dtf.text) /\ InRange64(dtf.text)
  /\ (pc = "fn" /\ caller = "main") =>
       DenotesNonZero(fn.text) /\ InRange64(fn.text)

\* C10: in decimalToFraction no factor sequence is empty: not what
\* divideWithPrimes returns for the numerator and the denominator, and not
\* what removeCommonNumbers returns and calculateProduct is given.  (Stated
\* for the accepted texts that are well-formed, the plainest that it covers.)
FactorsNeverEmpty ==
  (dtf.active /\ dtf.ok /\ WellFormed(dtf.text)) =>
    /\ (pc = "divided" /\ dw.ret \in {"dtf_num", "dtf_den"}) => dw.factors /= <<>>
    /\ pc = "dtf_done" =>
         /\ dtf.factorsnumerator /= <<>> /\ dtf.factorsdenominator /= <<>>
         /\ dtf.num /= <<>> /\ dtf.den /= <<>>
====
